---------------------------- MODULE Spec2Model ----------------------------
(***************************************************************************)
(* A model of the simplified Bitcoin mining environment                    *)
(* (src/src/environments/simple_bitcoin_env.py) and of the block-building  *)
(* pipeline it calls (src/src/utils/block.py, src/src/utils/merkle.py).    *)
(*                                                                         *)
(* Byte strings are sequences of 0..255, hex strings are sequences of hex  *)
(* digits 0..15.  SHA-256 (hashlib, a library) is abstracted by a          *)
(* deterministic digest of HashBytes bytes, so that every integer stays    *)
(* inside TLC's 32-bit range; the code around it (byte reversal, hex       *)
(* conversion, little-endian packing, pairing, the target comparison) is   *)
(* modelled as written.                                                    *)
(***************************************************************************)
EXTENDS Integers, Sequences, FiniteSets, TLC

\* ------------------------------------------------------------------ sizes
\* Width of a digest in bytes.  hashlib.sha256 yields 32 bytes; the model
\* scales it to 3 so that hash_int < 2^24.
HashBytes == 3

\* Number of transactions of the initial pool that the model keeps
\* (constants.py lists 7).
InitTxs == 3
\* The pool generated after a block holds MaxGenTxs-1 or MaxGenTxs
\* transactions (the source draws one size from 5..1000 at import time).
MaxGenTxs == 2
\* os.urandom is modelled by this many distinct digests.
UrandomValues == 2
\* step is enabled while block_height <= MaxBlocks.
MaxBlocks == 2
\* Longest tx_order offered to step in Spec.
MaxOrderLen == 1
\* SpecPerm: pool sizes 0..MaxPermN and orderings of length 0..MaxPermLen.
MaxPermN == 3
MaxPermLen == 4
\* SpecMerkle: lists of 0..MaxMerkleLen hashes.
MaxMerkleLen == 5
\* SpecPair: step is enabled while block_height <= MaxPairBlocks.
MaxPairBlocks == 1

HashSpace == 16777216  \* 2^(8*HashBytes), the source's 2**256

\* ------------------------------------------------------------ byte helpers
Range(s) == {s[i] : i \in 1..Len(s)}

Min(a, b) == IF a < b THEN a ELSE b

Max(a, b) == IF a > b THEN a ELSE b

RECURSIVE Pow(_, _)
Pow(b, e) == IF e = 0 THEN 1 ELSE b * Pow(b, e - 1)

\* a sequence written as a function, as the tuple it denotes
AsTuple(f) == f \o <<>>

\* list(range(n))
Identity(n) == AsTuple([i \in 1..n |-> i - 1])

\* b[::-1]
Reverse(s) == AsTuple([i \in 1..Len(s) |-> s[Len(s) + 1 - i]])

\* s[:n]
Take(s, n) == SubSeq(s, 1, Min(n, Len(s)))

\* bytes.fromhex(h)
fromhex(h) ==
  AsTuple([i \in 1..(Len(h) \div 2) |-> h[2 * i - 1] * 16 + h[2 * i]])

\* b.hex()
hex(b) ==
  AsTuple([i \in 1..(2 * Len(b)) |->
             IF i % 2 = 1 THEN b[(i + 1) \div 2] \div 16 ELSE b[i \div 2] % 16])

\* int(h, 16)
RECURSIVE HexToIntFrom(_, _, _)
HexToIntFrom(h, i, acc) ==
  IF i > Len(h) THEN acc ELSE HexToIntFrom(h, i + 1, acc * 16 + h[i])

hex_to_int(h) == HexToIntFrom(h, 1, 0)

\* struct.pack("<I", x) / struct.pack("<L", x) / x.to_bytes(k, 'little')
to_bytes_le(x, k) == AsTuple([i \in 1..k |-> (x \div Pow(256, i - 1)) % 256])

\* the digest as bytes, most significant first
to_bytes_be(x, k) == Reverse(to_bytes_le(x, k))

\* "00" * 32
ZeroHash == AsTuple([i \in 1..(2 * HashBytes) |-> 0])

\* ---------------------------------------------------------------- hashing
\* hashlib.sha256(data).digest(): a deterministic digest of HashBytes bytes
\* that depends on every byte of data and on its length.
\* one round: a multiplication carries low bits upwards, swapping the two
\* 12-bit halves brings the high bits down
Round(h) ==
  LET m == (h * 109 + 89) % HashSpace
  IN (m % 4096) * 4096 + m \div 4096

Mix(h) == Round(Round(Round(Round(h))))

RECURSIVE TreeDigest(_, _, _)
TreeDigest(data, lo, hi) ==
  IF lo > hi THEN 0
  ELSE IF lo = hi THEN data[lo] + 1
  ELSE LET mid == (lo + hi) \div 2
       IN Round((TreeDigest(data, lo, mid) * 31
                   + TreeDigest(data, mid + 1, hi) * 7 + 11) % HashSpace)

\* the digest of a byte string that is already a value
Digest(d) ==
  to_bytes_be(Mix((TreeDigest(d, 1, Len(d)) + Len(d)) % HashSpace), HashBytes)

\* TLC passes operator arguments unevaluated; the data are evaluated here,
\* once, before they are digested
sha256(data) == CHOOSE r \in {Digest(d) : d \in {data}} : TRUE

\* merkle.py double_sha256
double_sha256(data) == sha256(sha256(data))

\* block.py double_sha256
block_double_sha256(data) == sha256(sha256(data))

\* ------------------------------------------------------------- block.py
encode_varint(i) ==
  IF i < 253 THEN to_bytes_le(i, 1)
  ELSE IF i <= 65535 THEN <<253>> \o to_bytes_le(i, 2)
  ELSE <<254>> \o to_bytes_le(i, 4)

\* the while loop of encode_script_num: the magnitude, little-endian
RECURSIVE MagnitudeBytes(_)
MagnitudeBytes(abs_num) ==
  IF abs_num = 0 THEN <<>>
  ELSE <<abs_num % 256>> \o MagnitudeBytes(abs_num \div 256)

encode_script_num(num) ==
  IF num = 0 THEN <<>>
  ELSE LET result == MagnitudeBytes(IF num < 0 THEN -num ELSE num)
           last == result[Len(result)]
       IN IF last >= 128
            THEN Append(result, IF num < 0 THEN 128 ELSE 0)
            ELSE IF num < 0
                   THEN [result EXCEPT ![Len(result)] = last + 128]
                   ELSE result

\* base58.b58decode_check("1A1zP1eP5QGefi2DMPTfTL5SLmv7DivfNa")[1:]
PubkeyHash ==
  <<98, 233, 7, 177, 92, 191, 39, 213, 66, 83,
    153, 235, 246, 240, 251, 80, 235, 184, 143, 24>>

address_to_script_pubkey == <<118, 169, 20>> \o PubkeyHash \o <<136, 172>>

\* "Mining with RL".encode()
MinerMsg == <<77, 105, 110, 105, 110, 103, 32, 119, 105, 116, 104, 32, 82, 76>>

create_coinbase_tx(block_height, extra_nonce) ==
  LET version == to_bytes_le(1, 4)
      tx_in_count == <<1>>
      prev_out_hash == AsTuple([i \in 1..32 |-> 0])
      prev_out_index == <<255, 255, 255, 255>>
      height_bytes == encode_script_num(block_height)
      height_push == <<Len(height_bytes)>> \o height_bytes
      extra_data == to_bytes_le(extra_nonce, 4) \o MinerMsg
      script_sig == height_push \o extra_data
      script_sig_len == encode_varint(Len(script_sig))
      sequence == <<255, 255, 255, 255>>
      tx_in == prev_out_hash \o prev_out_index \o script_sig_len
                 \o script_sig \o sequence
      tx_out_count == <<1>>
      value == <<0, 242, 5, 42, 1, 0, 0, 0>>  \* struct.pack("<Q", 50 * 10^8)
      script_pubkey == address_to_script_pubkey
      script_pubkey_len == encode_varint(Len(script_pubkey))
      tx_out == value \o script_pubkey_len \o script_pubkey
      lock_time == <<0, 0, 0, 0>>
  IN version \o tx_in_count \o tx_in \o tx_out_count \o tx_out \o lock_time

txid(tx_bytes) == hex(Reverse(sha256(sha256(tx_bytes))))

bits_to_target(b) ==
  LET exponent == b \div 16777216
      mantissa == b % 16777216
  IN mantissa * Pow(2, 8 * (exponent - 3))

serialize_block_header(version, prev_hash, merkle, timestamp, b, nonce) ==
  to_bytes_le(version, 4)
    \o Reverse(fromhex(prev_hash))
    \o Reverse(fromhex(merkle))
    \o to_bytes_le(timestamp, 4)
    \o to_bytes_le(b, 4)
    \o to_bytes_le(nonce, 4)

compute_hash(header_fields) ==
  hex(Reverse(block_double_sha256(
    serialize_block_header(header_fields.version,
                           header_fields.previousblockhash,
                           header_fields.merkleroot,
                           header_fields.timestamp,
                           header_fields.bits,
                           header_fields.nonce))))

\* ------------------------------------------------------------- merkle.py
\* MerkleLevel with the first hash, not the last, duplicated on an odd level
MerkleLevel_DupFirst(hashes) ==
  LET padded == IF Len(hashes) % 2 # 0
                  THEN Append(hashes, hashes[1])
                  ELSE hashes
  IN AsTuple([k \in 1..(Len(padded) \div 2) |->
                double_sha256(padded[2 * k - 1] \o padded[2 * k])])

\* one pass of the while loop: duplicate the last hash of an odd level,
\* then hash the adjacent pairs
MerkleLevel(hashes) ==
  LET padded == IF Len(hashes) % 2 # 0
                  THEN Append(hashes, hashes[Len(hashes)])
                  ELSE hashes
  IN AsTuple([k \in 1..(Len(padded) \div 2) |->
                double_sha256(padded[2 * k - 1] \o padded[2 * k])])

RECURSIVE MerkleLoop(_)
MerkleLoop(hashes) ==
  IF Len(hashes) > 1 THEN MerkleLoop(MerkleLevel(hashes)) ELSE hashes

merkle_root(tx_hashes) ==
  IF Len(tx_hashes) = 0 THEN ZeroHash
  ELSE LET hashes == AsTuple([i \in 1..Len(tx_hashes) |-> fromhex(tx_hashes[i])])
       IN hex(Reverse(MerkleLoop(hashes)[1]))

\* ----------------------------------------------------------- constants.py
VERSION == 536870912  \* 0x20000000

\* 0x1f7fffff in the source (exponent 0x1f, mantissa 0x7fffff).  The model
\* keeps the mantissa and takes the exponent HashBytes, so that the target
\* lies inside the range of a HashBytes-byte digest (here at half of it).
BITS == HashBytes * 16777216 + 8388607

BASE_TIMESTAMP == 1700000000

AllTransactions ==
  << <<2, 7, 10, 1, 14, 13>>,
     <<13, 1, 0, 12, 0, 2>>,
     <<13, 5, 3, 2, 3, 12>>,
     <<9, 14, 4, 10, 11, 9>>,
     <<5, 5, 10, 13, 11, 5>>,
     <<12, 5, 11, 3, 14, 9>>,
     <<8, 3, 14, 4, 13, 13>> >>

TRANSACTIONS == SubSeq(AllTransactions, 1, InitTxs)

\* ------------------------------------------------- simple_bitcoin_env.py
VARIABLES
  previousblockhash,  \* self.previousblockhash, a hex string
  block_height,       \* self.block_height
  transactions,       \* self.transactions, a list of hex strings
  num_txs,            \* self.num_txs
  bits,               \* self.bits
  target,             \* self.target
  current_nonce,      \* self.current_nonce
  current_timestamp,  \* self.current_timestamp
  current_tx_order,   \* self.current_tx_order
  gen_num_txs,        \* the default num_txs of generate_transactions
  op,                 \* the last call: "init", "step" or "reset"
  action,             \* the argument of the last step
  reward,             \* returned by the last step: <<numerator, denominator>>
  done,               \* returned by the last step
  info,               \* returned by the last step
  p_pc,               \* SpecPerm: "idle", "pending" or "resolved"
  p_order,            \* SpecPerm: the tx_order given
  p_used,             \* SpecPerm: the tx_order used (step, line 115)
  p_list,             \* SpecPerm: full_tx_list (step, line 127)
  m_pc,               \* SpecMerkle: "idle", "start", "loop" or "done"
  m_tx_hashes,        \* SpecMerkle: the argument of merkle_root
  m_hashes,           \* SpecMerkle: the local hashes
  m_result            \* SpecMerkle: the value returned

envvars ==
  <<previousblockhash, block_height, transactions, num_txs, bits, target,
    current_nonce, current_timestamp, current_tx_order, gen_num_txs,
    op, action, reward, done, info>>

permvars == <<p_pc, p_order, p_used, p_list>>

merklevars == <<m_pc, m_tx_hashes, m_hashes, m_result>>

vars == <<envvars, permvars, merklevars>>

\* the fields of self that step reads and writes
Env ==
  [previousblockhash |-> previousblockhash,
   block_height |-> block_height,
   transactions |-> transactions,
   num_txs |-> num_txs,
   bits |-> bits,
   target |-> target,
   current_nonce |-> current_nonce,
   current_timestamp |-> current_timestamp,
   current_tx_order |-> current_tx_order]

\* the first loop of fix_permutation: first occurrences of in-range entries
RECURSIVE KeepFirstInRange(_, _, _, _)
KeepFirstInRange(arr, n, i, res) ==
  IF i > Len(arr) THEN res
  ELSE IF arr[i] \notin Range(res) /\ 0 <= arr[i] /\ arr[i] < n
         THEN KeepFirstInRange(arr, n, i + 1, Append(res, arr[i]))
         ELSE KeepFirstInRange(arr, n, i + 1, res)

\* the second loop of fix_permutation: the indices not seen, ascending
RECURSIVE AppendMissing(_, _, _, _)
AppendMissing(res, seen, n, x) ==
  IF x >= n THEN res
  ELSE IF x \notin seen
         THEN AppendMissing(Append(res, x), seen, n, x + 1)
         ELSE AppendMissing(res, seen, n, x + 1)

\* fix_permutation without its second loop
fix_permutation_NoFill(arr, n) == Take(KeepFirstInRange(arr, n, 1, <<>>), n)

fix_permutation(arr, n) ==
  LET kept == KeepFirstInRange(arr, n, 1, <<>>)
  IN Take(AppendMissing(kept, Range(kept), n, 0), n)

\* step without line 114
ClampOrder_Skip(tx_order, n) == tx_order

\* step, line 114: every entry is clamped into 0..num_txs-1
ClampOrder(tx_order, n) ==
  AsTuple([i \in 1..Len(tx_order) |-> Min(Max(0, tx_order[i]), n - 1)])

\* step, lines 113-115: the ordering the step uses
RepairOrder(tx_order, n) == fix_permutation(ClampOrder(tx_order, n), n)

\* step, lines 117-119
NewTimestamp ==
  IF BASE_TIMESTAMP < BASE_TIMESTAMP THEN BASE_TIMESTAMP ELSE BASE_TIMESTAMP

\* the comparison of line 151 the wrong way round
MeetsTarget_Reversed(hash_int, tgt) == tgt < hash_int

\* step, line 151: the proof-of-work test
MeetsTarget(hash_int, tgt) == hash_int < tgt

\* step, line 161: - (hash_int / 2**256), as a fraction
FailReward(hash_int) == <<-hash_int, HashSpace>>

\* step, line 148 and after: done is never assigned again
DoneFlag(found) == FALSE

\* step, lines 113-115 and 126-127: the ordering used and full_tx_list
TxList(e, order, coinbase_tx) ==
  LET tx_order == RepairOrder(order, e.num_txs)
      reordered_txs ==
        AsTuple([i \in 1..Len(tx_order) |-> e.transactions[tx_order[i] + 1]])
  IN [tx_order |-> tx_order, full_tx_list |-> <<coinbase_tx>> \o reordered_txs]

\* step, lines 110-145: the attempt built from the state e and the action a
Attempt(e, a) ==
  LET coinbase_tx == txid(create_coinbase_tx(e.block_height, a.extra_nonce))
      l == TxList(e, a.tx_order, coinbase_tx)
      header_fields ==
        [version |-> VERSION,
         previousblockhash |-> e.previousblockhash,
         merkleroot |-> merkle_root(l.full_tx_list),
         timestamp |-> NewTimestamp,
         bits |-> e.bits,
         nonce |-> a.nonce]
      block_hash == compute_hash(header_fields)
  IN [tx_order |-> l.tx_order,
      block_hash |-> block_hash,
      hash_int |-> hex_to_int(block_hash),
      header_fields |-> header_fields,
      coinbase_tx |-> coinbase_tx,
      full_tx_list |-> l.full_tx_list]

\* AdvanceChain without the increment of block_height
AdvanceChain_StaleHeight(e, block_hash, fresh) ==
  [e EXCEPT !.previousblockhash = block_hash,
            !.transactions = fresh,
            !.num_txs = Len(fresh)]

\* step, lines 152-159: what a found block changes
AdvanceChain(e, block_hash, fresh) ==
  [e EXCEPT !.previousblockhash = block_hash,
            !.block_height = e.block_height + 1,
            !.transactions = fresh,
            !.num_txs = Len(fresh)]

\* NextChain with line 154 outside the if
NextChain_HeightOutsideIf(e, t, fresh) ==
  IF MeetsTarget(t.hash_int, e.target)
    THEN AdvanceChain(e, t.block_hash, fresh)
    ELSE [e EXCEPT !.block_height = e.block_height + 1]

\* NextChain with line 153 outside the if
NextChain_PrevHashOutsideIf(e, t, fresh) ==
  IF MeetsTarget(t.hash_int, e.target)
    THEN AdvanceChain(e, t.block_hash, fresh)
    ELSE [e EXCEPT !.previousblockhash = t.block_hash]

\* step, lines 151-163: the chain state after the attempt t
NextChain(e, t, fresh) ==
  IF MeetsTarget(t.hash_int, e.target)
    THEN AdvanceChain(e, t.block_hash, fresh)
    ELSE e

\* step, lines 147-176: the state after the step and what the step returns,
\* t being the attempt built and fresh the pool generate_transactions()
\* returns if it is called
Resolve(e, a, t, fresh) ==
  [env |-> [NextChain(e, t, fresh) EXCEPT !.current_nonce = a.nonce,
                                          !.current_timestamp = NewTimestamp,
                                          !.current_tx_order = t.tx_order],
   reward |-> IF MeetsTarget(t.hash_int, e.target)
                THEN <<100, 1>>
                ELSE FailReward(t.hash_int),
   done |-> DoneFlag(MeetsTarget(t.hash_int, e.target)),
   info |-> [block_hash |-> t.block_hash,
             hash_int |-> t.hash_int,
             target |-> e.target,
             header_fields |-> t.header_fields,
             coinbase_tx |-> t.coinbase_tx,
             full_tx_list |-> t.full_tx_list]]

\* step as a function of the state, the action and the generated pool
StepFn(e, a, fresh) == Resolve(e, a, Attempt(e, a), fresh)

\* os.urandom(32).hex()
Urandom ==
  {hex(AsTuple([i \in 1..HashBytes |-> 16 * b + b])) : b \in 1..UrandomValues}

\* generate_transactions(num): the lists it can return
generate_transactions(num) == [1..num -> Urandom]

\* what a call that returns no reward, done and info leaves in these
NoInfo == [block_hash |-> <<>>]

NoAction == [nonce |-> 0, extra_nonce |-> 0, tx_order |-> <<>>]

\* the inputs offered to step
Nonces == {0, 1}

ExtraNonces == {0, 1}

RECURSIVE SeqsUpTo(_, _)
SeqsUpTo(S, n) ==
  IF n = 0 THEN {<<>>}
  ELSE LET shorter == SeqsUpTo(S, n - 1)
       IN shorter \cup
            {Append(s, x) : s \in {t \in shorter : Len(t) = n - 1}, x \in S}

Orders(n, maxlen) == SeqsUpTo((-1)..n, maxlen)

Actions(n, maxlen) ==
  [nonce : Nonces, extra_nonce : ExtraNonces, tx_order : Orders(n, maxlen)]

\* the state __init__ leaves, over the pool txs
NewEnv(txs) ==
  [previousblockhash |-> ZeroHash,
   block_height |-> 1,
   transactions |-> txs,
   num_txs |-> Len(txs),
   bits |-> BITS,
   target |-> bits_to_target(BITS),
   current_nonce |-> 0,
   current_timestamp |-> BASE_TIMESTAMP,
   current_tx_order |-> Identity(Len(txs))]

EnvIs(e) ==
  /\ previousblockhash = e.previousblockhash
  /\ block_height = e.block_height
  /\ transactions = e.transactions
  /\ num_txs = e.num_txs
  /\ bits = e.bits
  /\ target = e.target
  /\ current_nonce = e.current_nonce
  /\ current_timestamp = e.current_timestamp
  /\ current_tx_order = e.current_tx_order

NothingReturned ==
  /\ action = NoAction
  /\ reward = <<0, 1>>
  /\ done = FALSE
  /\ info = NoInfo

PermIdle ==
  /\ p_pc = "idle"
  /\ p_order = <<>>
  /\ p_used = <<>>
  /\ p_list = <<>>

MerkleIdle ==
  /\ m_pc = "idle"
  /\ m_tx_hashes = <<>>
  /\ m_hashes = <<>>
  /\ m_result = <<>>

\* __init__, with the module-level default of generate_transactions
Init ==
  /\ EnvIs(NewEnv(TRANSACTIONS))
  /\ gen_num_txs \in (MaxGenTxs - 1)..MaxGenTxs
  /\ op = "init"
  /\ NothingReturned
  /\ PermIdle
  /\ MerkleIdle

\* the assignments of one step call, r being what StepFn yields
StepWith(a, r) ==
  /\ previousblockhash' = r.env.previousblockhash
  /\ block_height' = r.env.block_height
  /\ transactions' = r.env.transactions
  /\ num_txs' = r.env.num_txs
  /\ bits' = r.env.bits
  /\ target' = r.env.target
  /\ current_nonce' = r.env.current_nonce
  /\ current_timestamp' = r.env.current_timestamp
  /\ current_tx_order' = r.env.current_tx_order
  /\ op' = "step"
  /\ action' = a
  /\ reward' = r.reward
  /\ done' = r.done
  /\ info' = r.info
  /\ UNCHANGED <<gen_num_txs, permvars, merklevars>>

\* the pools generate_transactions() can hand to a step that builds t: it is
\* called only when the block is found
FreshPools(e, t, gen) ==
  IF MeetsTarget(t.hash_int, e.target) THEN generate_transactions(gen) ELSE {<<>>}

\* step, while at most maxblocks blocks have been found
StepWithin(maxblocks) ==
  /\ block_height <= maxblocks
  /\ \E a \in Actions(num_txs, MaxOrderLen) :
       \E t \in {Attempt(Env, a)} :
         \E fresh \in FreshPools(Env, t, gen_num_txs) :
           \E r \in {Resolve(Env, a, t, fresh)} : StepWith(a, r)

Step == StepWithin(MaxBlocks)

Reset ==
  /\ current_nonce' = 0
  /\ current_timestamp' = BASE_TIMESTAMP
  /\ current_tx_order' = Identity(num_txs)
  /\ block_height' = 1
  /\ previousblockhash' = ZeroHash
  /\ op' = "reset"
  /\ action' = NoAction
  /\ reward' = <<0, 1>>
  /\ done' = FALSE
  /\ info' = NoInfo
  /\ UNCHANGED <<transactions, num_txs, bits, target, gen_num_txs>>
  /\ UNCHANGED <<permvars, merklevars>>

\* _get_obs
get_obs ==
  [version |-> VERSION,
   previousblockhash |-> fromhex(previousblockhash),
   bits |-> bits,
   timestamp |-> current_timestamp,
   nonce |-> current_nonce,
   tx_order |-> current_tx_order]

Next == Step \/ Reset

Spec == Init /\ [][Next]_vars

\* ----------------------------------------------------------------------
\* SpecPair: the environment until its first block (and after resets), the
\* states against which two attempts are compared in both orders.
PairStep == StepWithin(MaxPairBlocks)

PairNext == PairStep \/ Reset

SpecPair == Init /\ [][PairNext]_vars

\* ----------------------------------------------------------------------
\* SpecPerm: lines 113-127 of step applied once to every ordering of
\* PermOrders, over pools of 0..MaxPermN transactions.
PermOrders == SeqsUpTo((-1)..(MaxPermN + 2), MaxPermLen)

PermInit ==
  /\ \E n \in 0..MaxPermN : EnvIs(NewEnv(SubSeq(AllTransactions, 1, n)))
  /\ gen_num_txs = MaxGenTxs
  /\ op = "init"
  /\ NothingReturned
  /\ p_pc = "pending"
  /\ p_order = <<>>
  /\ p_used = <<>>
  /\ p_list = <<>>
  /\ MerkleIdle

PermApply ==
  /\ p_pc = "pending"
  /\ \E c \in {txid(create_coinbase_tx(block_height, 0))} :
       \E order \in PermOrders :
         \E l \in {TxList(Env, order, c)} :
           /\ p_pc' = "resolved"
           /\ p_order' = order
           /\ p_used' = l.tx_order
           /\ p_list' = l.full_tx_list
  /\ UNCHANGED <<envvars, merklevars>>

SpecPerm == PermInit /\ [][PermApply]_vars

\* ----------------------------------------------------------------------
\* SpecMerkle: merkle_root run statement by statement on every list of up to
\* MaxMerkleLen hashes.
MerkleUniverse == {AllTransactions[1], AllTransactions[2]}

MerkleInit ==
  /\ EnvIs(NewEnv(TRANSACTIONS))
  /\ gen_num_txs = MaxGenTxs
  /\ op = "init"
  /\ NothingReturned
  /\ PermIdle
  /\ m_pc = "start"
  /\ m_tx_hashes \in SeqsUpTo(MerkleUniverse, MaxMerkleLen)
  /\ m_hashes = <<>>
  /\ m_result = <<>>

\* lines 24-26
MerkleEnter ==
  /\ m_pc = "start"
  /\ IF Len(m_tx_hashes) = 0
       THEN /\ m_result' = ZeroHash
            /\ m_pc' = "done"
            /\ UNCHANGED m_hashes
       ELSE /\ m_hashes' =
                 AsTuple([i \in 1..Len(m_tx_hashes) |-> fromhex(m_tx_hashes[i])])
            /\ m_pc' = "loop"
            /\ UNCHANGED m_result
  /\ UNCHANGED <<m_tx_hashes, envvars, permvars>>

\* lines 27-33: one pass of the while loop
MerkleIterate ==
  /\ m_pc = "loop"
  /\ Len(m_hashes) > 1
  /\ m_hashes' = MerkleLevel(m_hashes)
  /\ UNCHANGED <<m_pc, m_tx_hashes, m_result, envvars, permvars>>

\* lines 27, 34-35: the loop ends and the root is returned
MerkleReturn ==
  /\ m_pc = "loop"
  /\ ~(Len(m_hashes) > 1)
  /\ m_result' = hex(Reverse(m_hashes[1]))
  /\ m_pc' = "done"
  /\ UNCHANGED <<m_tx_hashes, m_hashes, envvars, permvars>>

MerkleNext == MerkleEnter \/ MerkleIterate \/ MerkleReturn

SpecMerkle == MerkleInit /\ [][MerkleNext]_vars

\* merkle_root is one synchronous call: once entered it runs to its return
SpecMerkleFair == SpecMerkle /\ WF_vars(MerkleNext)

\* ======================================================================
\* The claims
\* ======================================================================
IsPermutation(s, n) ==
  /\ Len(s) = n
  /\ \A x \in 0..(n - 1) : Cardinality({i \in 1..n : s[i] = x}) = 1

Count(s, x) == Cardinality({i \in 1..Len(s) : s[i] = x})

\* a byte string read as a big-endian integer
RECURSIVE BigEndianInt(_)
BigEndianInt(b) ==
  IF Len(b) = 0 THEN 0
  ELSE BigEndianInt(SubSeq(b, 1, Len(b) - 1)) * 256 + b[Len(b)]

\* the block hash and the reward of a step
Outcome(r) == <<r.info.block_hash, r.reward>>

\* the chain state of claim C4
ChainState ==
  <<previousblockhash, block_height, transactions, num_txs, bits, target>>

\* ---------------------------------------------------------------- C1
\* C1: after every step, the reward is the constant 100 if and only if the
\* block hash, read as a big-endian integer, is strictly below the target;
\* otherwise the reward is not positive and equals -(hash_int / 2^256)
\* (here the fraction -hash_int / HashSpace).
C1_RewardIffBelowTarget ==
  op = "step" =>
    LET hash_int == BigEndianInt(fromhex(info.block_hash))
    IN /\ (reward = <<100, 1>>) <=> (hash_int < target)
       /\ hash_int >= target =>
            /\ reward[1] <= 0
            /\ reward = <<-hash_int, HashSpace>>

C1_Witness ==
  /\ op = "step"
  /\ BigEndianInt(fromhex(info.block_hash)) < target
  /\ reward = <<100, 1>>

\* ---------------------------------------------------------------- C2
\* C2: for every tx_order and every pool size n >= 0, the ordering step uses
\* is a permutation of 0..n-1, and full_tx_list is the coinbase txid followed
\* by every pool transaction exactly once.
C2_UsedOrderIsPermutation ==
  p_pc = "resolved" =>
    /\ IsPermutation(p_used, num_txs)
    /\ Len(p_list) = num_txs + 1
    /\ p_list[1] = txid(create_coinbase_tx(block_height, 0))
    /\ \A j \in 1..num_txs :
         Count(Tail(p_list), transactions[j]) = Count(transactions, transactions[j])

C2_Witness ==
  /\ p_pc = "resolved"
  /\ num_txs = 3
  /\ p_order = <<-1, 4, 4, 1>>
  /\ IsPermutation(p_used, 3)

\* ---------------------------------------------------------------- C3
\* the ordering the claim describes: out-of-range entries dropped, the first
\* occurrence of each index kept, the missing indices appended ascending
Ascending(S) ==
  [k \in 1..Cardinality(S) |->
     CHOOSE x \in S : Cardinality({y \in S : y < x}) = k - 1]

DropRepair(arr, n) ==
  LET keep == {i \in 1..Len(arr) :
                 /\ arr[i] \in 0..(n - 1)
                 /\ \A j \in 1..(i - 1) : arr[j] # arr[i]}
      pos == Ascending(keep)
      kept == [k \in 1..Cardinality(keep) |-> arr[pos[k]]]
      missing == Ascending((0..(n - 1)) \ {arr[i] : i \in keep})
  IN kept \o missing

\* every entry below 0 replaced by 0, every entry above n-1 by n-1
Clamped(arr, n) ==
  [i \in 1..Len(arr) |->
     IF arr[i] < 0 THEN 0 ELSE IF arr[i] > n - 1 THEN n - 1 ELSE arr[i]]

\* C3 as stated: the ordering used is the input with out-of-range entries
\* dropped and first occurrences kept, followed by the missing indices in
\* ascending order.
C3_DropOutOfRange ==
  p_pc = "resolved" => p_used = DropRepair(p_order, num_txs)

\* C3 as amended: every entry is first clamped into 0..n-1 (x < 0 becomes 0,
\* x > n-1 becomes n-1); of the clamped entries those in range are kept at
\* their first occurrence, in input order, followed by the missing indices
\* in ascending order; [5, 5, -1, 2] over 3 transactions gives [2, 0, 1].
C3_ClampThenRepair ==
  p_pc = "resolved" =>
    /\ p_used = DropRepair(Clamped(p_order, num_txs), num_txs)
    /\ (p_order = <<5, 5, -1, 2>> /\ num_txs = 3) => p_used = <<2, 0, 1>>

C3_Witness ==
  /\ p_pc = "resolved"
  /\ num_txs = 3
  /\ p_order = <<5, 5, -1, 2>>
  /\ p_used = <<2, 0, 1>>

\* ---------------------------------------------------------------- C4
\* C4: a step whose hash does not meet the target leaves previousblockhash,
\* block_height, the pool (transactions, num_txs), bits and target
\* unchanged; they change only in a step whose hash is below the target or
\* in a reset.
C4_FailedStepKeepsChain ==
  [][/\ (op' = "step" /\ info'.hash_int >= target) => ChainState' = ChainState
     /\ ChainState' # ChainState =>
          \/ op' = "reset"
          \/ op' = "step" /\ info'.hash_int < target]_vars

C4_Witness ==
  /\ op = "step"
  /\ info.hash_int >= target
  /\ block_height > 1

\* ---------------------------------------------------------------- C5
\* C5: every attempt is built with the pre-step previous hash, height and
\* pool; when its hash is below the target, after the step previousblockhash
\* is that hash, block_height is one greater, and the pool is a freshly
\* generated one with num_txs its length (so the next attempt uses the found
\* block's hash and the incremented height).
C5_FoundBlockAdvancesChain ==
  [][op' = "step" =>
       /\ info'.header_fields.previousblockhash = previousblockhash
       /\ info'.coinbase_tx =
            txid(create_coinbase_tx(block_height, action'.extra_nonce))
       /\ Len(info'.full_tx_list) = num_txs + 1
       /\ \A j \in 1..num_txs :
            Count(Tail(info'.full_tx_list), transactions[j])
              = Count(transactions, transactions[j])
       /\ info'.hash_int < target =>
            /\ previousblockhash' = info'.block_hash
            /\ block_height' = block_height + 1
            /\ transactions' \in generate_transactions(gen_num_txs)
            /\ num_txs' = Len(transactions')]_vars

C5_Witness ==
  /\ op = "step"
  /\ info.hash_int < target
  /\ info.header_fields.previousblockhash # ZeroHash
  /\ previousblockhash = info.block_hash
  /\ block_height = 3

\* ---------------------------------------------------------------- C6
\* Attempt a has just been stepped against the state s, giving the outcome ra
\* and the state sa.  For the attempt b, which builds tb against s: b stepped
\* after a has the outcome of b stepped first, and a stepped after b has the
\* outcome ra.  (StepFn(e, x, f) is Resolve(e, x, Attempt(e, x), f).)
BothOrdersAgree(s, a, ra, sa, b, tb, pools) ==
  /\ \A tb2 \in {Attempt(sa, b)} :
       \A f \in pools :
         Outcome(Resolve(sa, b, tb2, f)) = Outcome(Resolve(s, b, tb, f))
  /\ \A sb \in {Resolve(s, b, tb, f).env : f \in pools} :
       \A ta2 \in {Attempt(sb, a)} :
         \A f \in pools : Outcome(Resolve(sb, a, ta2, f)) = ra

\* C6 as stated: for any two attempts issued one after the other against
\* the same state, the hash and the reward of each are the same in both
\* orders.
C6_OrderIndependent ==
  [][op' = "step" =>
       \A b \in Actions(num_txs, MaxOrderLen) :
         \A tb \in {Attempt(Env, b)} :
           BothOrdersAgree(Env, action', <<info'.block_hash, reward'>>, Env',
                           b, tb, generate_transactions(gen_num_txs))]_vars

\* C6 as amended: for any two attempts issued one after the other against
\* the same state, neither of which finds a block against that state, the
\* hash and the reward of each are the same in both orders.
C6_OrderIndependentUnlessFound ==
  [][(op' = "step" /\ ~MeetsTarget(info'.hash_int, target)) =>
       \A b \in Actions(num_txs, MaxOrderLen) :
         \A tb \in {Attempt(Env, b)} :
           ~MeetsTarget(tb.hash_int, target) =>
             BothOrdersAgree(Env, action', <<info'.block_hash, reward'>>, Env',
                             b, tb, generate_transactions(gen_num_txs))]_vars

C6_Witness ==
  /\ op = "step"
  /\ ~MeetsTarget(info.hash_int, target)
  /\ \E b \in Actions(num_txs, MaxOrderLen) :
       /\ b # action
       /\ ~MeetsTarget(Attempt(Env, b).hash_int, target)

\* ---------------------------------------------------------------- C7
\* C7: the done flag step returns is True exactly when the attempt's hash
\* meets the target.
C7_DoneIffBlockFound ==
  op = "step" => (done <=> info.hash_int < target)

\* ---------------------------------------------------------------- C8
\* C8: after reset the state equals the state right after construction
\* (pool included), so an attempt stepped after reset has the hash and the
\* reward it has on a new environment.
C8_ResetRestoresInitialState ==
  op = "reset" =>
    /\ Env = NewEnv(TRANSACTIONS)
    /\ \A a \in Actions(Len(TRANSACTIONS), MaxOrderLen) :
         Outcome(StepFn(Env, a, <<>>))
           = Outcome(StepFn(NewEnv(TRANSACTIONS), a, <<>>))

\* ---------------------------------------------------------------- C9
\* the root the claim describes: on an odd level the last element is paired
\* with itself; levels are taken until one element is left
RefLevel(L) ==
  [k \in 1..((Len(L) + 1) \div 2) |->
     double_sha256(L[2 * k - 1] \o L[Min(2 * k, Len(L))])]

RECURSIVE RefReduce(_)
RefReduce(L) == IF Len(L) = 1 THEN L[1] ELSE RefReduce(RefLevel(L))

\* a hex string with its bytes (pairs of digits) in reverse order
ByteReversedHex(h) ==
  [i \in 1..Len(h) |->
     h[2 * (Len(h) \div 2 - (i + 1) \div 2) + (IF i % 2 = 1 THEN 1 ELSE 2)]]

RefRoot(txs) ==
  IF Len(txs) = 0 THEN [i \in 1..(2 * HashBytes) |-> 0]
  ELSE ByteReversedHex(hex(RefReduce([i \in 1..Len(txs) |-> fromhex(txs[i])])))

MerkleResultOK ==
  m_pc = "done" =>
    /\ m_result = RefRoot(m_tx_hashes)
    /\ m_result = merkle_root(m_tx_hashes)
    /\ Len(m_tx_hashes) = 0 => m_result = [i \in 1..(2 * HashBytes) |-> 0]
    /\ Len(m_tx_hashes) = 1 => m_result = ByteReversedHex(m_tx_hashes[1])
    /\ (Len(m_tx_hashes) > 1 /\ Len(m_tx_hashes) % 2 = 1) =>
         merkle_root(Append(m_tx_hashes, m_tx_hashes[Len(m_tx_hashes)]))
           = m_result

\* C9: merkle_root terminates on every finite list and returns the all-zero
\* root for the empty list, otherwise the byte-reversed hex of the element
\* left after the level steps (odd count: duplicate the last element; then
\* hash adjacent pairs); a one-element list is returned byte-reversed, and an
\* odd list L of more than one element has the root of L + [last(L)].
C9_MerkleRoot == []MerkleResultOK /\ <>(m_pc = "done")

C9_Witness ==
  /\ m_pc = "done"
  /\ Len(m_tx_hashes) = 5
  /\ m_result = RefRoot(m_tx_hashes)

\* ---------------------------------------------------------------- C10
\* C10: in every reachable state the tx order returned in the observation is
\* a permutation of 0..num_txs-1 of the current pool.
C10_ObservedOrderIsPermutation ==
  IsPermutation(get_obs.tx_order, num_txs)

=============================================================================
